---- MODULE Spec2Model ----
(***************************************************************************)
(* Model of sparks.py: endpoint prediction with an order-2 Markov chain,   *)
(* Laplace-smoothed scoring, optional Radamsa mutation and throttled HTTP  *)
(* validation.                                                             *)
(*                                                                         *)
(* A Python str is a sequence of one-character strings, so that tokenize,  *)
(* strip, startswith and the regular expressions of normalize_token are    *)
(* computed and not assumed.  A Counter is a sequence of entries in        *)
(* insertion order, the order Python 3.7+ iterates it in.  A float         *)
(* probability is the exact rational it approximates, kept as a reduced    *)
(* fraction [n, d].                                                        *)
(***************************************************************************)
EXTENDS Integers, Sequences, FiniteSets, TLC

\* ------------------------------------------------------------------ str

Min(a, b) == IF a < b THEN a ELSE b
Max(a, b) == IF a > b THEN a ELSE b

Digits == {"0", "1", "2", "3", "4", "5", "6", "7", "8", "9"}
HexLower == {"a", "b", "c", "d", "e", "f"}
Whitespace == {" ", "\n", "\t", "\r"}

SLASH == <<"/">>
START == <<"<", "S", "T", "A", "R", "T", ">">>
END == <<"<", "E", "N", "D", ">">>
ID == <<"<", "i", "d", ">">>
UUID == <<"<", "u", "u", "i", "d", ">">>

\* None, where the program has a status code or nothing.  A status code is
\* the string of its digits.
None == "None"

RECURSIVE lstrip(_, _)
lstrip(s, chars) ==
    IF s # <<>> /\ Head(s) \in chars THEN lstrip(Tail(s), chars) ELSE s

RECURSIVE rstrip(_, _)
rstrip(s, chars) ==
    IF s # <<>> /\ s[Len(s)] \in chars
    THEN rstrip(SubSeq(s, 1, Len(s) - 1), chars)
    ELSE s

strip(s, chars) == lstrip(rstrip(s, chars), chars)

\* s.split(sep): the pieces between the separators, empty pieces included.
RECURSIVE split(_, _)
split(s, sep) ==
    IF \E i \in 1..Len(s) : s[i] = sep
    THEN LET i == CHOOSE k \in 1..Len(s) :
                      s[k] = sep /\ \A j \in 1..(k - 1) : s[j] # sep
         IN  <<SubSeq(s, 1, i - 1)>> \o split(SubSeq(s, i + 1, Len(s)), sep)
    ELSE <<s>>

\* sep.join(parts)
RECURSIVE join(_, _)
join(sep, parts) ==
    IF parts = <<>> THEN <<>>
    ELSE IF Len(parts) = 1 THEN parts[1]
    ELSE parts[1] \o <<sep>> \o join(sep, Tail(parts))

startswith(s, c) == s # <<>> /\ s[1] = c

\* "/" + "/".join(tokens)
path(tokens) == SLASH \o join("/", tokens)

\* ------------------------------------------------------ utility functions

NonEmpty(t) == t # <<>>

tokenize(endpoint) == SelectSeq(split(strip(endpoint, {"/"}), "/"), NonEmpty)

normalize_token(token) ==
    IF Len(token) >= 1 /\ \A i \in 1..Len(token) : token[i] \in Digits
    THEN ID
    ELSE IF Len(token) = 36
            /\ \A i \in 1..Len(token) : token[i] \in HexLower \cup Digits \cup {"-"}
    THEN UUID
    ELSE token

extract_normalized_tokens(endpoints) ==
    [e \in 1..Len(endpoints) |->
        LET tokens == tokenize(endpoints[e])
        IN  [t \in 1..Len(tokens) |-> normalize_token(tokens[t])]]

\* ------------------------------------------- defaultdict(Counter), Counter

\* The keys of a dict, and the position of one.
Keys(d) == {d[i].key : i \in 1..Len(d)}
IndexOf(d, key) == CHOOSE i \in 1..Len(d) : d[i].key = key

\* Counter.__getitem__: the count, 0 for a missing element, nothing inserted.
CounterGet(counter, token) ==
    IF token \in Keys(counter) THEN counter[IndexOf(counter, token)].val ELSE 0

\* counter[token] += 1: a new element goes to the end.
CounterInc(counter, token) ==
    IF token \in Keys(counter)
    THEN [counter EXCEPT ![IndexOf(counter, token)].val = @ + 1]
    ELSE Append(counter, [key |-> token, val |-> 1])

RECURSIVE SumVals(_)
SumVals(counter) ==
    IF counter = <<>> THEN 0 ELSE Head(counter).val + SumVals(Tail(counter))

\* The defaultdict of Counters is a function from its keys to their Counters:
\* the program never reads the order of its keys (it takes the union of the
\* Counters' elements, and looks keys up).
\* defaultdict.__getitem__: a missing key is inserted with an empty Counter.
\* The dict after the access ...
chain_getitem(chain, key) ==
    IF key \in DOMAIN chain THEN chain
    ELSE [k \in DOMAIN chain \cup {key} |-> IF k = key THEN <<>> ELSE chain[k]]

\* ... and the Counter it returns.
chain_value(chain, key) ==
    IF key \in DOMAIN chain THEN chain[key] ELSE <<>>

\* markov_chain[key][next_token] += 1
chain_increment(chain, key, next_token) ==
    [chain_getitem(chain, key) EXCEPT ![key] = CounterInc(@, next_token)]

\* sorted(items, key=..., reverse=True), where gt[j, k] says that the key of
\* items[j] is greater than the key of items[k].  The sort is stable: an item
\* goes behind every item with a greater key and behind the items with an
\* equal key that precede it in the input.
sorted_reverse(items, gt) ==
    LET n == Len(items)
        rank(k) == 1 + Cardinality({j \in 1..n : gt[j, k]})
                     + Cardinality({j \in 1..(k - 1) : ~gt[j, k] /\ ~gt[k, j]})
    IN  [p \in 1..n |-> items[CHOOSE k \in 1..n : rank(k) = p]]

\* most_common with the ties turned round: of two elements with equal counts
\* the one inserted last comes first.
most_common_ties_reversed(counter, n) ==
    LET rev == [i \in 1..Len(counter) |-> counter[Len(counter) + 1 - i]]
        gt == [j \in 1..Len(rev), k \in 1..Len(rev) |-> rev[j].val > rev[k].val]
        s == sorted_reverse(rev, gt)
    IN  SubSeq(s, 1, Min(n, Len(s)))

\* Counter.most_common(n) is heapq.nlargest(n, items, key=count), which is
\* sorted(items, key=count, reverse=True)[:n].
most_common(counter, n) ==
    LET gt == [j \in 1..Len(counter), k \in 1..Len(counter) |->
                  counter[j].val > counter[k].val]
        s == sorted_reverse(counter, gt)
    IN  SubSeq(s, 1, Min(n, Len(s)))

\* --------------------------------------------------------------- the chain

RECURSIVE add_windows(_, _, _, _)
add_windows(chain, tokens, order, i) ==
    IF i >= Len(tokens) - order THEN chain
    ELSE add_windows(
             chain_increment(chain, SubSeq(tokens, i + 1, i + order),
                             tokens[i + order + 1]),
             tokens, order, i + 1)

padded(tokens, order) == [i \in 1..order |-> START] \o tokens \o <<END>>

RECURSIVE build_from(_, _, _)
build_from(chain, token_sequences, order) ==
    IF token_sequences = <<>> THEN chain
    ELSE build_from(add_windows(chain, padded(Head(token_sequences), order), order, 0),
                    Tail(token_sequences), order)

\* defaultdict(Counter)
EmptyChain == [k \in {} |-> <<>>]

build_markov_chain(token_sequences, order) ==
    build_from(EmptyChain, token_sequences, order)

predict_next_tokens(chain, current_tokens, top_n) ==
    IF current_tokens \in DOMAIN chain
    THEN most_common(chain_value(chain, current_tokens), top_n)
    ELSE <<>>

\* ---------------------------------------------------------- the candidates

\* The Markov order main passes to every stage, and the number of predictions
\* predict_next_tokens returns by default.
Order == 2
TopN == 3

\* tokens[max(0, i - order + 1):i+1], for the position i counted from 0.
current_state(tokens, i, order) == SubSeq(tokens, Max(0, i - order + 1) + 1, i + 1)

\* The candidates one prediction adds for the prefix tokens[:i+1].
emitted(tokens, i, token, common_words) ==
    IF token = END
    THEN {path(SubSeq(tokens, 1, i + 1) \o <<common_words[w]>>) :
              w \in 1..Len(common_words)}
    ELSE {path(SubSeq(tokens, 1, i + 1) \o <<token>>)}

\* The candidates the position i of one sequence adds.
candidates_at(tokens, i, chain, common_words, order) ==
    LET predictions ==
            predict_next_tokens(chain, current_state(tokens, i, order), TopN)
    IN  UNION {emitted(tokens, i, predictions[p].key, common_words) :
                   p \in 1..Len(predictions)}

generate_candidates(token_sequences, chain, common_words, order) ==
    UNION {UNION {candidates_at(token_sequences[s], i, chain, common_words, order) :
                      i \in 0..(Len(token_sequences[s]) - 1)} :
               s \in 1..Len(token_sequences)}

\* ------------------------------------------------------------- the scores

RECURSIVE gcd(_, _)
gcd(a, b) == IF b = 0 THEN a ELSE gcd(b, a % b)

\* The fraction n/d, d > 0, reduced.
Frac(n, d) == LET g == gcd(n, d) IN [n |-> n \div g, d |-> d \div g]

One == [n |-> 1, d |-> 1]

FracGreater(p, q) == p.n * q.d > q.n * p.d
FracGE(p, q) == p.n * q.d >= q.n * p.d

\* set(counter.keys()) over chain.values()
vocab_of(chain) == UNION {Keys(chain[k]) : k \in DOMAIN chain}

\* The loop of candidate_probability from the window that ends at tokens[i]
\* (i counted from 1) on; st is [chain, prob, raised].  The division raises
\* ZeroDivisionError, after chain[key] was read, when the denominator is 0.
RECURSIVE score_windows(_, _, _, _, _, _)
score_windows(st, tokens, order, vocab_size, alpha, i) ==
    IF i > Len(tokens) \/ st.raised THEN st
    ELSE LET key == SubSeq(tokens, i - order, i - 1)
             next_token == tokens[i]
             chain1 == chain_getitem(st.chain, key)
             count_next == CounterGet(chain_value(chain1, key), next_token)
             total_count == SumVals(chain_value(chain1, key))
             denominator == total_count + alpha * vocab_size
         IN  IF denominator = 0
             THEN [chain |-> chain1, prob |-> st.prob, raised |-> TRUE]
             ELSE score_windows(
                      [chain |-> chain1,
                       prob |-> Frac(st.prob.n * (count_next + alpha),
                                     st.prob.d * denominator),
                       raised |-> FALSE],
                      tokens, order, vocab_size, alpha, i + 1)

\* Returns [chain, prob, raised]: the chain as the call leaves it, the
\* probability returned, and whether the call raised instead of returning.
candidate_probability(candidate, chain, order, vocab_size, alpha) ==
    score_windows([chain |-> chain, prob |-> One, raised |-> FALSE],
                  padded(tokenize(candidate), order), order, vocab_size, alpha,
                  order + 1)

\* The call with vocab_size left at its default, None: the size is counted
\* from the chain before the loop.
candidate_probability_default(candidate, chain, order, alpha) ==
    candidate_probability(candidate, chain, order, Cardinality(vocab_of(chain)),
                          alpha)

\* ---------------------------------------------------------- the validation

\* What requests.get does for a URL: the target answers with a status code,
\* or the call raises (timeout, refused connection, DNS or TLS failure).
\* "down" is a target no request reaches, "gated" one that answers 401 to
\* everything, "mixed" one whose answer depends on the last character of the
\* path, the part of the URL before the query.
Targets == {"down", "gated", "mixed"}

requests_get(t, url) ==
    LET resource == split(url, "?")[1]
        last == resource[Len(resource)]
    IN  CASE t = "down" -> [raised |-> TRUE, status_code |-> None]
          [] t = "gated" -> [raised |-> FALSE, status_code |-> "401"]
          [] OTHER ->
                CASE last = "w" -> [raised |-> FALSE, status_code |-> "200"]
                  [] last = "x" -> [raised |-> FALSE, status_code |-> "404"]
                  [] last = "c" -> [raised |-> FALSE, status_code |-> "403"]
                  [] last = "7" -> [raised |-> FALSE, status_code |-> "500"]
                  [] last = ">" -> [raised |-> FALSE, status_code |-> "302"]
                  [] OTHER -> [raised |-> TRUE, status_code |-> None]

\* validate_candidate with 404 taken for a status of an existing resource.
validate_candidate_404_valid(base_url, candidate, static_pattern, t) ==
    LET url == rstrip(base_url, {"/"}) \o candidate \o static_pattern
        response == requests_get(t, url)
    IN  IF response.raised THEN <<FALSE, None>>
        ELSE IF response.status_code \in {"200", "401", "403", "404"}
        THEN <<TRUE, response.status_code>>
        ELSE <<FALSE, response.status_code>>

\* The (is_valid, status) validate_candidate returns.
validate_candidate(base_url, candidate, static_pattern, t) ==
    LET url == rstrip(base_url, {"/"}) \o candidate \o static_pattern
        response == requests_get(t, url)
    IN  IF response.raised THEN <<FALSE, None>>
        ELSE IF response.status_code \in {"200", "401", "403"}
        THEN <<TRUE, response.status_code>>
        ELSE <<FALSE, response.status_code>>

\* ------------------------------------------------------------ the mutator

\* What one run of the radamsa process does: Popen raises (spawned is
\* FALSE), or the process exits with a return code and its standard output.
\* A byte is its ASCII character, or "0xFF", a byte no UTF-8 text holds.
\*   "missing"  no such program: every Popen raises
\*   "digit"    the last byte becomes "7", a newline follows
\*   "crash"    exits with code 1 and no output
\*   "binary"   appends "/" and a byte that is not UTF-8
\*   "flaky"    Popen raises on every other run; else the input without its
\*              first byte
Radamsas == {"missing", "digit", "crash", "binary", "flaky"}

run_radamsa(r, input, i) ==
    CASE r = "missing" -> [spawned |-> FALSE, returncode |-> 0, stdout |-> <<>>]
      [] r = "digit" ->
            [spawned |-> TRUE, returncode |-> 0,
             stdout |-> SubSeq(input, 1, Len(input) - 1) \o <<"7", "\n">>]
      [] r = "crash" -> [spawned |-> TRUE, returncode |-> 1, stdout |-> <<>>]
      [] r = "binary" ->
            [spawned |-> TRUE, returncode |-> 0,
             stdout |-> input \o <<"/", "0xFF">>]
      [] OTHER ->
            IF i % 2 = 0
            THEN [spawned |-> FALSE, returncode |-> 0, stdout |-> <<>>]
            ELSE [spawned |-> TRUE, returncode |-> 0, stdout |-> Tail(input)]

\* candidate.encode('utf-8'), for the ASCII text the candidates are made of.
encode(s) == [i \in 1..Len(s) |-> s[i]]

\* output.decode('utf-8', errors='replace'): a byte that is not UTF-8 becomes
\* the replacement character U+FFFD; nothing is raised.
decode_replace(bytes) ==
    [i \in 1..Len(bytes) |-> IF bytes[i] = "0xFF" THEN "U+FFFD" ELSE bytes[i]]

is_utf8(bytes) == \A i \in 1..Len(bytes) : bytes[i] # "0xFF"

\* One iteration of fuzz_candidate's loop: the strings it adds to
\* fuzzed_candidates, given what the process did.
fuzz_iteration(proc) ==
    IF ~proc.spawned THEN {}
    ELSE LET fuzzed_candidate == strip(decode_replace(proc.stdout), Whitespace)
         IN  IF ~startswith(fuzzed_candidate, "/")
             THEN {SLASH \o fuzzed_candidate}
             ELSE {fuzzed_candidate}

\* The floor of the candidate pool under which main mutates, and its test.
FuzzFloor == 10

\* The test with <= for <.
should_fuzz_inclusive(enabled, n) == enabled /\ n <= FuzzFloor

should_fuzz(enabled, n) == enabled /\ n < FuzzFloor

\* The alpha main scores with.
Alpha == 1

\* ------------------------------------------------------------- the inputs

EpAB == <<"/", "a", "/", "b">>
EpAC == <<"/", "a", "/", "c">>
EpAD == <<"/", "a", "/", "d">>
EpABC == <<"/", "a", "/", "b", "/", "c">>
EpAB7 == <<"/", "a", "/", "b", "/", "7">>
\* "a//b/": no leading slash, an empty segment, a trailing slash
EpABloose == <<"a", "/", "/", "b", "/">>

KnownEndpointLists ==
    {<<EpAB>>, <<EpAB, EpAC>>, <<EpAB7, EpABloose>>, <<EpAB, EpABC, EpAD>>}

WordLists == {<<<<"w">>>>, <<<<"w">>, <<"x">>>>}

\* --threshold
Thresholds == {[n |-> 1, d |-> 120], [n |-> 1, d |-> 50]}

\* The runs checked: every list of endpoints with every list of words and
\* every threshold; one run with the default threshold, 0.001; and one whose
\* three words make exactly ten candidates.
Scenarios ==
    [eps : KnownEndpointLists, words : WordLists, threshold : Thresholds]
    \cup {[eps |-> <<EpAB>>, words |-> <<<<"w">>, <<"x">>>>,
           threshold |-> [n |-> 1, d |-> 1000]],
          [eps |-> <<EpAB, EpABC, EpAD>>,
           words |-> <<<<"w">>, <<"x">>, <<"y">>>>,
           threshold |-> [n |-> 1, d |-> 120]]}

\* --iters is at most MaxIters.
MaxIters == 2

\* --target and --static-pattern
BaseUrl == <<"t", "/">>
StaticPattern == <<"?", "k">>

\* --------------------------------------------------------------- the state

VARIABLES
    known_endpoints,        \* the arguments of the run
    common_words,
    fuzz_enabled,
    fuzz_iterations,
    threshold_probability,
    radamsa,                \* the environment: what the radamsa program and
    target,                 \* the target do, None until the run first meets them
    pc,                     \* where main is
    token_sequences,
    chain,
    vocab_size,
    candidates,
    generated,              \* the candidates as generate_candidates returned them
    pending,                \* of list(candidates), what the loop has yet to take
    call,                   \* the fuzz_candidate call in progress
    additional_candidates,
    scored_candidates,
    invocations,            \* the runs of radamsa so far
    trace,                  \* the requests and sleeps so far, in order
    results,                \* the validation lines printed so far
    run,                    \* 1, or 2 for the run that repeats the first
    previous,               \* what the first run printed and requested
    fn                      \* the last call of a function called on its own

vars ==
    <<known_endpoints, common_words, fuzz_enabled, fuzz_iterations,
      threshold_probability, radamsa, target, pc, token_sequences, chain,
      vocab_size, candidates, generated, pending, call, additional_candidates,
      scored_candidates, invocations, trace, results, run, previous, fn>>

args == <<known_endpoints, common_words, fuzz_enabled, fuzz_iterations,
          threshold_probability>>

NoCall == [candidate |-> <<>>, i |-> -1, fuzzed_candidates |-> {}]
NoPrevious == [scored_candidates |-> <<>>, results |-> <<>>, trace |-> <<>>]
NoFn == [name |-> "none", arg |-> <<>>, raised |-> FALSE, ret |-> <<>>]

\* Lines 166-238: the arguments are read; nothing has run.
Start ==
    /\ pc = "tokenize"
    /\ token_sequences = <<>>
    /\ chain = EmptyChain
    /\ vocab_size = 0
    /\ candidates = {}
    /\ generated = {}
    /\ pending = {}
    /\ call = NoCall
    /\ additional_candidates = {}
    /\ scored_candidates = <<>>
    /\ invocations = {}
    /\ trace = <<>>
    /\ results = <<>>

Init ==
    /\ \E sc \in Scenarios :
           /\ known_endpoints = sc.eps
           /\ common_words = sc.words
           /\ threshold_probability = sc.threshold
    /\ \E enabled \in BOOLEAN, iters \in 0..MaxIters :
           /\ fuzz_enabled = enabled
           /\ fuzz_iterations = IF enabled THEN iters ELSE 0
    /\ radamsa = None
    /\ target = None
    /\ run = 1
    /\ previous = NoPrevious
    /\ fn = NoFn
    /\ Start

\* ---------------------------------------------------------------- main

\* 1. token_sequences = extract_normalized_tokens(known_endpoints)
Tokenize ==
    /\ pc = "tokenize"
    /\ token_sequences' = extract_normalized_tokens(known_endpoints)
    /\ pc' = "build"
    /\ UNCHANGED <<args, radamsa, target, chain, vocab_size, candidates,
                   generated, pending, call, additional_candidates,
                   scored_candidates, invocations, trace, results, run,
                   previous, fn>>

\* 2. The chain, and the size of its vocabulary.
BuildChain ==
    /\ pc = "build"
    /\ chain' = build_markov_chain(token_sequences, Order)
    /\ vocab_size' = Cardinality(vocab_of(chain'))
    /\ pc' = "generate"
    /\ UNCHANGED <<args, radamsa, target, token_sequences, candidates,
                   generated, pending, call, additional_candidates,
                   scored_candidates, invocations, trace, results, run,
                   previous, fn>>

\* 3. candidates = generate_candidates(...)
Generate ==
    /\ pc = "generate"
    /\ candidates' = generate_candidates(token_sequences, chain, common_words, Order)
    /\ generated' = candidates'
    /\ pc' = "augment"
    /\ UNCHANGED <<args, radamsa, target, token_sequences, chain, vocab_size,
                   pending, call, additional_candidates, scored_candidates,
                   invocations, trace, results, run, previous, fn>>

\* 4. if fuzz_enabled and len(candidates) < 10: the loop over
\* list(candidates) starts ...
FuzzBegin ==
    /\ pc = "augment"
    /\ should_fuzz(fuzz_enabled, Cardinality(candidates))
    /\ additional_candidates' = {}
    /\ pending' = candidates
    /\ pc' = "fuzz"
    /\ UNCHANGED <<args, radamsa, target, token_sequences, chain, vocab_size,
                   candidates, generated, call, scored_candidates, invocations,
                   trace, results, run, previous, fn>>

\* ... or the stage is skipped.
FuzzSkip ==
    /\ pc = "augment"
    /\ ~should_fuzz(fuzz_enabled, Cardinality(candidates))
    /\ pc' = "score"
    /\ UNCHANGED <<args, radamsa, target, token_sequences, chain, vocab_size,
                   candidates, generated, pending, call, additional_candidates,
                   scored_candidates, invocations, trace, results, run,
                   previous, fn>>

\* fuzz_candidate(candidate, iterations=fuzz_iterations) is called for the
\* next candidate of list(candidates), whose order is the set's.
FuzzCall ==
    /\ pc = "fuzz"
    /\ call = NoCall
    /\ \E candidate \in pending :
           /\ call' = [candidate |-> candidate, i |-> 0, fuzzed_candidates |-> {}]
           /\ pending' = pending \ {candidate}
    /\ UNCHANGED <<args, radamsa, target, pc, token_sequences, chain,
                   vocab_size, candidates, generated, additional_candidates,
                   scored_candidates, invocations, trace, results, run,
                   previous, fn>>

\* One iteration of fuzz_candidate's loop: radamsa is run on the candidate.
FuzzIteration ==
    /\ pc = "fuzz"
    /\ call # NoCall
    /\ call.i < fuzz_iterations
    /\ \E r \in IF radamsa = None THEN Radamsas ELSE {radamsa} :
           LET proc == run_radamsa(r, encode(call.candidate), call.i)
               added == fuzz_iteration(proc)
           IN  /\ radamsa' = r
               /\ call' = [call EXCEPT !.i = @ + 1,
                                       !.fuzzed_candidates = @ \cup added]
               /\ invocations' = invocations \cup
                      {[candidate |-> call.candidate, i |-> call.i,
                        proc |-> proc, added |-> added]}
    /\ UNCHANGED <<args, target, pc, token_sequences, chain, vocab_size,
                   candidates, generated, pending, additional_candidates,
                   scored_candidates, trace, results, run, previous, fn>>

\* fuzz_candidate returns; additional_candidates.update(fuzzed)
FuzzReturn ==
    /\ pc = "fuzz"
    /\ call # NoCall
    /\ call.i >= fuzz_iterations
    /\ additional_candidates' = additional_candidates \cup call.fuzzed_candidates
    /\ call' = NoCall
    /\ UNCHANGED <<args, radamsa, target, pc, token_sequences, chain,
                   vocab_size, candidates, generated, pending,
                   scored_candidates, invocations, trace, results, run,
                   previous, fn>>

\* candidates.update(additional_candidates)
FuzzEnd ==
    /\ pc = "fuzz"
    /\ call = NoCall
    /\ pending = {}
    /\ candidates' = candidates \cup additional_candidates
    /\ pc' = "score"
    /\ UNCHANGED <<args, radamsa, target, token_sequences, chain, vocab_size,
                   generated, pending, call, additional_candidates,
                   scored_candidates, invocations, trace, results, run,
                   previous, fn>>

\* The orders a for loop can take the elements of a set in.
RECURSIVE iteration_orders(_)
iteration_orders(S) ==
    IF S = {} THEN {<<>>}
    ELSE UNION {{<<x>> \o rest : rest \in iteration_orders(S \ {x})} : x \in S}

\* The chain after candidate_probability was called for every candidate of S.
\* The calls only insert keys with empty Counters, so the order of the calls
\* changes neither the chain they leave nor any probability.
RECURSIVE chain_after(_, _, _)
chain_after(S, ch, size) ==
    IF S = {} THEN ch
    ELSE LET c == CHOOSE x \in S : TRUE
         IN  chain_after(S \ {c},
                         candidate_probability(c, ch, Order, size, Alpha).chain,
                         size)

\* The sort without reverse=True.
sort_scored_ascending(scored) ==
    sorted_reverse(scored,
                   [j \in 1..Len(scored), k \in 1..Len(scored) |->
                       FracGreater(scored[k].prob, scored[j].prob)])

\* scored_candidates.sort(key=lambda x: x[1], reverse=True)
sort_scored(scored) ==
    sorted_reverse(scored,
                   [j \in 1..Len(scored), k \in 1..Len(scored) |->
                       FracGreater(scored[j].prob, scored[k].prob)])

\* 5. The loop over the set of candidates: each is scored, and appended to
\* scored_candidates if its probability reaches the threshold.  The loop takes
\* the set in one of its iteration orders, so scored_candidates holds the
\* retained candidates in any order.
Score ==
    /\ pc = "score"
    /\ LET scores == [c \in candidates |->
                         candidate_probability(c, chain, Order, vocab_size, Alpha)]
           retained == {c \in candidates :
                            FracGE(scores[c].prob, threshold_probability)}
       IN  IF \E c \in candidates : scores[c].raised
           THEN /\ pc' = "raised"
                /\ UNCHANGED <<scored_candidates, chain>>
           ELSE /\ \E order \in iteration_orders(retained) :
                       scored_candidates' =
                           [j \in 1..Len(order) |->
                               [candidate |-> order[j],
                                prob |-> scores[order[j]].prob]]
                /\ chain' = chain_after(candidates, chain, vocab_size)
                /\ pc' = "sort"
    /\ UNCHANGED <<args, radamsa, target, token_sequences, vocab_size,
                   candidates, generated, pending, call, additional_candidates,
                   invocations, trace, results, run, previous, fn>>

\* The sort, and the report of the candidates.
Sort ==
    /\ pc = "sort"
    /\ scored_candidates' = sort_scored(scored_candidates)
    /\ pc' = "validate"
    /\ UNCHANGED <<args, radamsa, target, token_sequences, chain, vocab_size,
                   candidates, generated, pending, call, additional_candidates,
                   invocations, trace, results, run, previous, fn>>

\* 6. validate_candidate for the next candidate of scored_candidates, and the
\* line printed for it.
Request ==
    /\ pc = "validate"
    /\ Len(results) < Len(scored_candidates)
    /\ \E t \in IF target = None THEN Targets ELSE {target} :
           LET scored == scored_candidates[Len(results) + 1]
               ret == validate_candidate(BaseUrl, scored.candidate, StaticPattern, t)
           IN  /\ target' = t
               /\ trace' = Append(trace, [op |-> "get", candidate |-> scored.candidate])
               /\ results' = Append(results,
                                    [candidate |-> scored.candidate,
                                     is_valid |-> ret[1], status |-> ret[2],
                                     prob |-> scored.prob])
    /\ pc' = "sleep"
    /\ UNCHANGED <<args, radamsa, token_sequences, chain, vocab_size,
                   candidates, generated, pending, call, additional_candidates,
                   scored_candidates, invocations, run, previous, fn>>

\* time.sleep(throttle)
Sleep ==
    /\ pc = "sleep"
    /\ trace' = Append(trace, [op |-> "sleep", candidate |-> <<>>])
    /\ pc' = "validate"
    /\ UNCHANGED <<args, radamsa, target, token_sequences, chain, vocab_size,
                   candidates, generated, pending, call, additional_candidates,
                   scored_candidates, invocations, results, run, previous, fn>>

\* The loop is over: main returns.
Finish ==
    /\ pc = "validate"
    /\ Len(results) = Len(scored_candidates)
    /\ pc' = "done"
    /\ UNCHANGED <<args, radamsa, target, token_sequences, chain, vocab_size,
                   candidates, generated, pending, call, additional_candidates,
                   scored_candidates, invocations, trace, results, run,
                   previous, fn>>

Next ==
    \/ Tokenize
    \/ BuildChain
    \/ Generate
    \/ FuzzBegin
    \/ FuzzSkip
    \/ FuzzCall
    \/ FuzzIteration
    \/ FuzzReturn
    \/ FuzzEnd
    \/ Score
    \/ Sort
    \/ Request
    \/ Sleep
    \/ Finish

Spec == Init /\ [][Next]_vars

\* ------------------------------------------------------- the run repeated

\* The program is run again with the same arguments, against the same radamsa
\* program and the same target.  Nothing of the first run is kept but what it
\* printed and requested, which is set aside for comparison.
Rerun ==
    /\ pc = "done"
    /\ run = 1
    /\ run' = 2
    /\ previous' = [scored_candidates |-> scored_candidates,
                    results |-> results, trace |-> trace]
    /\ pc' = "tokenize"
    /\ token_sequences' = <<>>
    /\ chain' = EmptyChain
    /\ vocab_size' = 0
    /\ candidates' = {}
    /\ generated' = {}
    /\ pending' = {}
    /\ call' = NoCall
    /\ additional_candidates' = {}
    /\ scored_candidates' = <<>>
    /\ invocations' = {}
    /\ trace' = <<>>
    /\ results' = <<>>
    /\ UNCHANGED <<args, radamsa, target, fn>>

\* The runs repeated: short lists, so that both runs are explored in full.
InitRerun ==
    /\ known_endpoints \in {<<EpAB>>, <<EpAB, EpAC>>}
    /\ common_words \in {<<<<"w">>>>, <<<<"w">>, <<"x">>>>}
    /\ Len(known_endpoints) + Len(common_words) <= 3
    /\ threshold_probability = [n |-> 1, d |-> 120]
    /\ \E enabled \in BOOLEAN :
           /\ fuzz_enabled = enabled
           /\ fuzz_iterations = IF enabled THEN 1 ELSE 0
    /\ radamsa = None
    /\ target = None
    /\ run = 1
    /\ previous = NoPrevious
    /\ fn = NoFn
    /\ Start

NextRerun == Next \/ Rerun

SpecRerun == InitRerun /\ [][NextRerun]_vars

\* ------------------------------------------- the functions on their own

Uuid == [i \in 1..36 |-> IF i \in {9, 14, 19, 24} THEN "-"
                          ELSE IF i % 2 = 0 THEN "4" ELSE "f"]

EpABD == <<"/", "a", "/", "b", "/", "d">>
EpABE == <<"/", "a", "/", "b", "/", "e">>
EpABF == <<"/", "a", "/", "b", "/", "f">>
EpAId == <<"/", "a", "/">> \o ID

FnEndpointLists ==
    {<<>>, <<SLASH>>, <<EpAB>>, <<EpAB7, EpABloose>>,
     <<EpABC, EpABD, EpAB, EpABE>>,
     <<EpABC, EpABD, EpAB, EpABE, EpABF, EpABE, EpABF>>,
     <<<<"/", "a", "/">> \o Uuid, EpAB7>>}

FnCandidates ==
    {<<>>, SLASH, EpAB, EpAB7, EpAId, EpABC \o <<"/", "w">>, <<"/", "a", "/">> \o Uuid}

FnContexts ==
    {<<START, START>>, <<START, <<"a">>>>, <<<<"a">>, <<"b">>>>, <<<<"a">>>>,
     <<<<"b">>, <<"c">>>>, <<<<"b">>, <<"7">>>>, <<<<"b">>, ID>>}

\* A chain is built from a list of endpoints, as main builds it.
InitFn ==
    /\ known_endpoints \in FnEndpointLists
    /\ common_words = <<>>
    /\ fuzz_enabled = FALSE
    /\ fuzz_iterations = 0
    /\ threshold_probability = [n |-> 1, d |-> 1000]
    /\ radamsa = None
    /\ target = None
    /\ run = 1
    /\ previous = NoPrevious
    /\ fn = NoFn
    /\ pc = "fn"
    /\ token_sequences = extract_normalized_tokens(known_endpoints)
    /\ chain = build_markov_chain(token_sequences, Order)
    /\ vocab_size = Cardinality(vocab_of(chain))
    /\ candidates = {}
    /\ generated = {}
    /\ pending = {}
    /\ call = NoCall
    /\ additional_candidates = {}
    /\ scored_candidates = <<>>
    /\ invocations = {}
    /\ trace = <<>>
    /\ results = <<>>

\* candidate_probability(candidate, chain), with alpha = 1 and the vocabulary
\* counted from the chain
CallProbability ==
    /\ pc = "fn"
    /\ \E candidate \in FnCandidates :
           LET ret == candidate_probability_default(candidate, chain, Order, Alpha)
           IN  /\ chain' = ret.chain
               /\ fn' = [name |-> "candidate_probability", arg |-> candidate,
                         raised |-> ret.raised, ret |-> ret.prob]
    /\ UNCHANGED <<args, radamsa, target, pc, token_sequences, vocab_size,
                   candidates, generated, pending, call, additional_candidates,
                   scored_candidates, invocations, trace, results, run,
                   previous>>

\* predict_next_tokens(chain, current_tokens)
CallPredict ==
    /\ pc = "fn"
    /\ \E current_tokens \in FnContexts :
           fn' = [name |-> "predict_next_tokens", arg |-> current_tokens,
                  raised |-> FALSE,
                  ret |-> predict_next_tokens(chain, current_tokens, TopN)]
    /\ UNCHANGED <<args, radamsa, target, pc, token_sequences, chain,
                   vocab_size, candidates, generated, pending, call,
                   additional_candidates, scored_candidates, invocations,
                   trace, results, run, previous>>

NextFn == CallProbability \/ CallPredict

SpecFn == InitFn /\ [][NextFn]_vars

\* ------------------------------------------------------------- the claims

\* The URL main requests for a candidate, and what the target does with it.
UrlOf(candidate) == rstrip(BaseUrl, {"/"}) \o candidate \o StaticPattern
ResponseTo(candidate) == requests_get(target, UrlOf(candidate))

\* C1: every validation line reports the candidate valid exactly if its GET
\* returned status 200, 401 or 403; any other status is reported invalid with
\* that status; a GET that raised is reported invalid with the status None;
\* and a raising GET does not end the loop: when main is done every candidate
\* of scored_candidates has its line.
C1_ValidIffStatusGated ==
    /\ \A j \in 1..Len(results) :
           LET response == ResponseTo(results[j].candidate)
           IN  /\ results[j].candidate = scored_candidates[j].candidate
               /\ results[j].is_valid <=>
                      (~response.raised
                       /\ response.status_code \in {"200", "401", "403"})
               /\ ~response.raised => results[j].status = response.status_code
               /\ response.raised => results[j].status = None
    /\ pc = "done" => Len(results) = Len(scored_candidates)

\* A GET raised, the loop went on, and a later candidate was found valid with
\* status 200; an earlier or later one was invalid with a status.
C1_Witness ==
    /\ pc = "done"
    /\ \E i, j, k \in 1..Len(results) :
           /\ i < j
           /\ ResponseTo(results[i].candidate).raised
           /\ results[i].status = None /\ ~results[i].is_valid
           /\ results[j].is_valid /\ results[j].status = "200"
           /\ ~results[k].is_valid /\ results[k].status = "404"

Gets == SelectSeq(trace, LAMBDA e : e.op = "get")

\* C2: the requests and the sleeps alternate, a request first, so that one
\* sleep separates two consecutive requests and follows every request,
\* whatever its result; the requests are those of the retained candidates,
\* once each, in the order of the report, which is by non-increasing
\* probability.
C2_RequestsInOrderThrottled ==
    /\ \A i \in 1..Len(trace) :
           trace[i].op = IF i % 2 = 1 THEN "get" ELSE "sleep"
    /\ pc \in {"validate", "done"} => Len(trace) = 2 * Len(results)
    /\ pc = "sleep" => Len(trace) = 2 * Len(results) - 1
    /\ Len(Gets) = Len(results)
    /\ pc \in {"validate", "sleep", "done"} =>
           /\ Len(Gets) <= Len(scored_candidates)
           /\ \A j \in 1..Len(Gets) :
                  Gets[j].candidate = scored_candidates[j].candidate
           /\ \A i, j \in 1..Len(scored_candidates) :
                  i < j => ~FracGreater(scored_candidates[j].prob,
                                        scored_candidates[i].prob)
           /\ \A i, j \in 1..Len(scored_candidates) :
                  i # j => scored_candidates[i].candidate
                               # scored_candidates[j].candidate
    /\ pc = "done" =>
           /\ Len(Gets) = Len(scored_candidates)
           /\ {Gets[j].candidate : j \in 1..Len(Gets)}
                  = {c \in candidates :
                         FracGE(candidate_probability(c, chain, Order, vocab_size,
                                                      Alpha).prob,
                                threshold_probability)}

\* Three or more requests of decreasing probability were made and slept
\* after: one raised, one was answered with an invalid status, one was valid.
C2_Witness ==
    /\ pc = "done"
    /\ Len(results) >= 3
    /\ \E i \in 1..Len(results) : results[i].status = None
    /\ \E i \in 1..Len(results) : results[i].is_valid
    /\ \E i \in 1..Len(results) : ~results[i].is_valid /\ results[i].status # None
    /\ \E i, j \in 1..Len(results) : FracGreater(results[i].prob, results[j].prob)

\* The context of length order for the position i (from 0) of a sequence:
\* the min(order, i+1) tokens that end at i, padded on the left with <START>.
PaddedContext(tokens, i, order) ==
    LET trailing == SubSeq(tokens, i + 2 - Min(order, i + 1), i + 1)
    IN  [k \in 1..(order - Len(trailing)) |-> START] \o trailing

\* C3: for every known sequence and every position, generate_candidates emits
\* the candidates of the chain's predictions for the context of length order,
\* padded with <START> where fewer than order tokens are available.
C3_LooksUpPaddedContext ==
    pc = "augment" =>
        \A s \in 1..Len(token_sequences) :
            \A i \in 0..(Len(token_sequences[s]) - 1) :
                LET tokens == token_sequences[s]
                    predictions ==
                        predict_next_tokens(chain, PaddedContext(tokens, i, Order), TopN)
                IN  \A p \in 1..Len(predictions) :
                        emitted(tokens, i, predictions[p].key, common_words)
                            \subseteq generated

\* The candidate with every token normalized.
Normalized(candidate) ==
    LET tokens == tokenize(candidate)
    IN  path([t \in 1..Len(tokens) |-> normalize_token(tokens[t])])

\* C4: a candidate is scored as the candidate with its tokens normalized is.
C4_ScoresNormalizedCandidate ==
    pc = "sort" =>
        \A j \in 1..Len(scored_candidates) :
            scored_candidates[j].prob =
                candidate_probability(Normalized(scored_candidates[j].candidate),
                                      chain, Order, vocab_size, Alpha).prob

\* C5: candidate_probability, with alpha = 1, never raises and returns a
\* probability p with 0 < p <= 1, whatever the candidate and for the chain of
\* any list of endpoints, the empty list included.
C5_ProbabilityInUnitInterval ==
    fn.name = "candidate_probability" =>
        /\ ~fn.raised
        /\ fn.ret.n > 0
        /\ fn.ret.n <= fn.ret.d

\* A run of radamsa failed: it could not be started, it exited with a code
\* other than 0, or its output was not UTF-8.
Failed(proc) ==
    ~proc.spawned \/ proc.returncode # 0 \/ ~is_utf8(proc.stdout)

\* C6: a run of radamsa that failed adds no string to the candidates.
C6_FailedMutationAddsNothing ==
    \A v \in invocations : Failed(v.proc) => v.added = {}

InvocationsOf(candidate) == {v \in invocations : v.candidate = candidate}

\* C7: radamsa is never run when mutation is disabled or when
\* generate_candidates returned 10 candidates or more; else, once the mutation
\* stage is over, it was run fuzz_iterations times for each generated
\* candidate and for nothing else, and the candidates scored are the generated
\* ones and the strings those runs added.
C7_MutationOnlyBelowFloor ==
    /\ (~fuzz_enabled \/ Cardinality(generated) >= 10) => invocations = {}
    /\ \A v \in invocations : v.candidate \in generated
    /\ \A c \in generated : Cardinality(InvocationsOf(c)) <= fuzz_iterations
    /\ (pc \in {"score", "sort", "validate", "sleep", "done"}
        /\ fuzz_enabled /\ Cardinality(generated) < 10) =>
           \A c \in generated : Cardinality(InvocationsOf(c)) = fuzz_iterations
    /\ pc \in {"score", "sort", "validate", "sleep", "done"} =>
           candidates = generated \cup UNION {v.added : v \in invocations}

\* Seven candidates, each mutated twice, and the mutations enlarged the pool
\* that is scored.
C7_Witness ==
    /\ pc = "score"
    /\ fuzz_enabled
    /\ fuzz_iterations = 2
    /\ Cardinality(generated) = 7
    /\ \A c \in generated : Cardinality(InvocationsOf(c)) = 2
    /\ candidates # generated

\* C8: the run that repeats a run, with the same arguments, radamsa and
\* target, prints the same report in the same order and makes the same
\* requests with the same results.
C8_RepeatedRunIdentical ==
    (pc = "done" /\ run = 2) =>
        /\ scored_candidates = previous.scored_candidates
        /\ trace = previous.trace
        /\ results = previous.results

\* C9: once built, the chain is what build_markov_chain returned: no stage
\* adds, removes or changes a key or a count.
C9_ChainReadOnly ==
    pc \in {"generate", "augment", "fuzz", "score", "sort", "validate", "sleep",
            "done"} =>
        chain = build_markov_chain(token_sequences, Order)

\* The windows (context, next token) of the padded sequences, in the order
\* build_markov_chain meets them.
RECURSIVE WindowsOf(_, _)
WindowsOf(tokens, order) ==
    IF Len(tokens) <= order THEN <<>>
    ELSE <<[key |-> SubSeq(tokens, 1, order), next |-> tokens[order + 1]]>>
         \o WindowsOf(Tail(tokens), order)

RECURSIVE AllWindows(_, _)
AllWindows(sequences, order) ==
    IF sequences = <<>> THEN <<>>
    ELSE WindowsOf(padded(Head(sequences), order), order)
         \o AllWindows(Tail(sequences), order)

\* When a next-token was first seen after a context, and how often.
FirstSeen(key, token) ==
    LET w == AllWindows(token_sequences, Order)
    IN  CHOOSE i \in 1..Len(w) :
            /\ w[i].key = key /\ w[i].next = token
            /\ \A j \in 1..(i - 1) : ~(w[j].key = key /\ w[j].next = token)

TimesSeen(key, token) ==
    LET w == AllWindows(token_sequences, Order)
    IN  Cardinality({i \in 1..Len(w) : w[i].key = key /\ w[i].next = token})

NextTokens(key) ==
    LET w == AllWindows(token_sequences, Order)
    IN  {w[i].next : i \in {j \in 1..Len(w) : w[j].key = key}}

\* a comes before b: it was seen more often, or as often and first.
Precedes(key, a, b) ==
    \/ TimesSeen(key, a) > TimesSeen(key, b)
    \/ /\ TimesSeen(key, a) = TimesSeen(key, b)
       /\ FirstSeen(key, a) < FirstSeen(key, b)

\* C10: predict_next_tokens returns at most 3 next-tokens of the context with
\* their counts, by descending count and, among equal counts, in the order in
\* which they were first seen after the context when the chain was built;
\* what it leaves out comes after all it returns in that order; and it
\* returns nothing for a context the chain does not hold.
C10_TopThreeFirstSeenFirst ==
    fn.name = "predict_next_tokens" =>
        LET key == fn.arg
            ret == fn.ret
            returned == {ret[i].key : i \in 1..Len(ret)}
        IN  /\ key \notin DOMAIN chain => ret = <<>>
            /\ Len(ret) = Min(3, Cardinality(NextTokens(key)))
            /\ returned \subseteq NextTokens(key)
            /\ \A i \in 1..Len(ret) : ret[i].val = TimesSeen(key, ret[i].key)
            /\ \A i, j \in 1..Len(ret) :
                   i < j => Precedes(key, ret[i].key, ret[j].key)
            /\ \A t \in NextTokens(key) \ returned :
                   \A i \in 1..Len(ret) : Precedes(key, ret[i].key, t)

\* A context with five next-tokens: the two seen twice come first, and of the
\* three seen once only the one seen first is returned.
C10_Witness ==
    /\ fn.name = "predict_next_tokens"
    /\ Cardinality(NextTokens(fn.arg)) = 5
    /\ Len(fn.ret) = 3
    /\ fn.ret[1].val = 2 /\ fn.ret[2].val = 2 /\ fn.ret[3].val = 1
    /\ \E t \in NextTokens(fn.arg) :
           /\ t \notin {fn.ret[i].key : i \in 1..3}
           /\ TimesSeen(fn.arg, t) = 1

====
